---- MODULE Spec2Model ----
(***************************************************************************)
(* Model of the DataEndpoints token-lifecycle service and broker adapters. *)
(*                                                                         *)
(*   src/services/token_rotation_service.py   TokenRotationService         *)
(*   src/brokers/upstox/broker.py             UpstoxBroker                 *)
(*   src/brokers/zerodha/broker.py            ZerodhaBroker                *)
(*   src/brokers/*/token_rotator.py           rotators                     *)
(*                                                                         *)
(* The process runs one asyncio event loop: a coroutine runs without       *)
(* interruption between two suspension points (awaits that really wait:    *)
(* network calls and sleeps).  Every action below is one such run.         *)
(***************************************************************************)
EXTENDS Integers, Sequences, FiniteSets, TLC

(***************************************************************************)
(* Bounds of the model.                                                    *)
(***************************************************************************)
\* initialize() calls that may begin on one adapter object
MaxInits == 2
\* tokens the authenticator may still hand out for one broker
MaxTok == 1
\* rotate_token calls another task may make beside the loop
MaxExtCalls == 1
\* instrument refs in one quote request
MaxRefs == 3
\* keys per provider call of ltp_quote (750 in the source)
LtpChunk == 2
\* keys per provider call of ohlc_quote and full_market_quote (450 in the
\* source)
QuoteChunk == 1
\* the last day number a historical_data call may name
MaxDay == 3
\* days added to chunk_start to get chunk_end (999 in the source)
ChunkDays == 1
\* new instrument files the provider may publish during a run
MaxFeed == 1
\* register_broker calls made after the class body of BrokerFactory
MaxRegs == 2
\* instruments in the body of one API request
MaxBody == 2

(***************************************************************************)
(* Broker types, factory registry and rotator modules.                     *)
(***************************************************************************)
\* str.lower() on the broker-type strings the model uses
Lower(t) ==
    CASE t = "upstox"  -> "upstox"
      [] t = "Upstox"  -> "upstox"
      [] t = "zerodha" -> "zerodha"
      [] t = "Zerodha" -> "zerodha"
      [] OTHER         -> t

\* BrokerFactory._broker_registry after brokers/__init__.py has run
\* (register_broker lower-cases the key)
_broker_registry ==
    [k \in {Lower("upstox"), Lower("Zerodha")} |->
        IF k = "upstox" THEN "UpstoxBroker" ELSE "ZerodhaBroker"]

\* BrokerFactory.create_broker: the class built for a broker type
\* (callers check CanCreate first; an unregistered type raises ValueError)
CanCreate(t) == Lower(t) \in DOMAIN _broker_registry
create_broker(t) == _broker_registry[Lower(t)]

\* rotate_token resolves the rotator by formatting the broker type, as
\* given, into the module path brokers.<type>.token_rotator: the import
\* succeeds only for the package directories that exist
RotatorResolves(t) == t \in {"upstox", "zerodha"}

\* The broker configurations the service is started with (self.brokers),
\* in dict order
Configs == { <<"upstox", "zerodha">>, <<"Zerodha", "upstox">> }
BrokerTypes == {"upstox", "zerodha", "Zerodha"}

(***************************************************************************)
(* The instrument file a provider serves at its feed URL.  The Upstox      *)
(* loader reads, joins and rewrites the column trading_symbol, so every    *)
(* file it accepts has that column; UpstoxBroker.convert_quote reads the   *)
(* column tradingsymbol, which a file may or may not carry as well.        *)
(***************************************************************************)
SymbolColumns == { {"trading_symbol"}, {"trading_symbol", "tradingsymbol"} }
Feeds == [version : 0..MaxFeed, columns : SymbolColumns]

(***************************************************************************)
(* State.                                                                  *)
(***************************************************************************)
VARIABLES
    brokers,            \* TokenRotationService.brokers: config keys in order
    broker_instances,   \* registered broker types (dict keys; insertion
                        \* order is the order of brokers)
    pc,                 \* where start() is
    idx,                \* position of the loop in the dict being iterated
    loopGen,            \* which initialize() call the loop is inside
    extPc,              \* another caller of rotate_token: "idle" or
                        \* "reinit_wait"
    extCur,             \* the broker type that caller rotates
    extGen,             \* which initialize() call that caller is inside
    extCalls,           \* rotate_token calls that caller has made
    store,              \* token store: current token of each broker
    access_token,       \* adapter.access_token (-1: None)
    tokenGen,           \* the initialize() call that wrote access_token
    master_df,          \* adapter.master_df, named by the initialize()
                        \* call that loaded it (0: not loaded)
    initCalls,          \* initialize() calls begun on the adapter
    master_data,        \* adapter.master_data: the instrument file(s) the
                        \* rows of master_df were read from (<<>>: none)
    init1,              \* per adapter, what its first successful
                        \* initialize() read and left (<<>>: none yet)
    feed,               \* the instrument file the feed URL serves now
    probeRes,           \* this cycle: "none", "ok", "fail" per broker
    prevProbeRes,       \* the same for the previous cycle
    rotCalls,           \* this cycle: rotate_token calls made by the loop
    prevRotCalls,
    rotSteps,           \* per broker, the steps of the latest rotate_token
                        \* call of the cycle, in the order they ran
    rotPre,             \* per broker, the store entry, access_token and
                        \* master_df when that rotate_token call began
                        \* (<<>>: no call this cycle)
    rotRes,             \* this cycle, what rotate_token returned: "none"
                        \* (not called), "pending", "ok" (True), "failed"
                        \* (False)
    prevRotRes,
    reqPc,              \* a quote call on an adapter: "idle", "await_http",
                        \* "sleeping", "rate_wait", "done", "failed"
    reqBroker,          \* the broker type of the adapter it runs on
    reqOp,              \* "ltp_quote", "ohlc_quote", "full_market_quote"
    reqRefs,            \* request_data: the instrument refs
    reqChunks,          \* chunks: the batches of resolved instrument keys
    reqChunk,           \* the batch the call is at
    reqCalls,           \* provider calls issued: the keys and the bearer
                        \* token each was sent with
    reqCatUsed,         \* the master_df convert_quote read per response
    reqResult,          \* combined_response: exchange_token -> entry
    reqError,           \* "none" or the class of the exception raised
    reqTok0,            \* adapter.access_token when the call began
    reqCat0,            \* adapter.master_df when the call began
    reqInitBad,         \* whether the adapter's latest initialize() had
                        \* failed when the call began
    reqOutcomes,        \* what the provider answered to each call so far
    reqSleeps,          \* for each asyncio.sleep(1) made, the number of
                        \* provider calls issued before it
    reqRateWaits,       \* asyncio.sleep(60) waits made
    hdPc,               \* a historical_data call on the UpstoxBroker: "idle",
                        \* "await_http", "sleeping", "done", "failed"
    hdRef,              \* exchange, exchange_token, instrument_type
    hdFrom,             \* from_date, as a day number
    hdTo,               \* to_date
    hdToday,            \* the date datetime.now() gives during the call
    hdChunks,           \* date_chunks
    hdChunk,            \* the date chunk the call is at
    hdCalls,            \* the date chunks requested from the provider
    hdResp,             \* the provider's answer to each request
    hdCombined,         \* combined_df: the datetime column (<<>> for None)
    hdOut,              \* the candle list returned
    hdError,            \* "none", "ValueError", "TypeError"
    hdLookups,          \* calls of self.full_market_quote made for the
                        \* current-session candle
    registry,           \* BrokerFactory._broker_registry as register_broker
                        \* builds it
    regLog,             \* the register_broker calls made, in order
    created,            \* the latest create_broker call and what it gave
    apiPc,              \* "idle", "initializing", "in_broker", "answered"
    apiEndpoint,        \* the route of the request
    apiBrokerType,      \* its broker_type query parameter
    apiBody,            \* the instruments of its body
    apiStage,           \* where the response was decided: "get_broker" or
                        \* "handler"
    apiStatus,          \* the HTTP status of the response (0: none yet)
    apiToken,           \* access_token of the request's adapter (-1: None)
    apiStore0,          \* the store's token for the request's broker when
                        \* the request arrived (-1: no broker created)
    apiOutcome          \* how the adapter call of the handler ended: "none",
                        \* "data", "empty" or the class of its exception

svcVars == <<brokers, broker_instances, pc, idx, loopGen>>
extVars == <<extPc, extCur, extGen, extCalls>>
adapterVars == <<store, access_token, tokenGen, master_df, initCalls,
                 master_data, init1>>
feedVars == <<feed>>
histVars == <<probeRes, prevProbeRes, rotCalls, prevRotCalls, rotSteps, rotPre,
              rotRes,
              prevRotRes>>
reqVars == <<reqPc, reqBroker, reqOp, reqRefs, reqChunks, reqChunk, reqCalls,
             reqCatUsed, reqResult, reqError, reqTok0, reqCat0, reqInitBad,
             reqOutcomes, reqSleeps, reqRateWaits>>
hdVars == <<hdPc, hdRef, hdFrom, hdTo, hdToday, hdChunks, hdChunk, hdCalls,
            hdResp, hdCombined, hdOut, hdError, hdLookups>>
facVars == <<registry, regLog, created>>
apiVars == <<apiPc, apiEndpoint, apiBrokerType, apiBody, apiStage, apiStatus,
             apiToken, apiStore0, apiOutcome>>
vars == <<svcVars, extVars, adapterVars, histVars, reqVars, hdVars, feedVars,
          facVars, apiVars>>

NoBroker == "none"
NoRef == [exchange_token |-> "", exchange |-> "", instrument_type |-> ""]

\* the registered brokers in dict (insertion) order
RegSeq == SelectSeq(brokers, LAMBDA t : t \in broker_instances)
\* the broker the loop is at
Cur == IF pc = "svc_init" THEN brokers[idx] ELSE RegSeq[idx]

\* no quote call has been made
ReqIdle ==
    /\ reqPc = "idle"
    /\ reqBroker = NoBroker
    /\ reqOp = "none"
    /\ reqRefs = <<>>
    /\ reqChunks = <<>>
    /\ reqChunk = 0
    /\ reqCalls = <<>>
    /\ reqCatUsed = <<>>
    /\ reqResult = <<>>
    /\ reqError = "none"
    /\ reqTok0 = -1
    /\ reqCat0 = 0
    /\ reqInitBad = FALSE
    /\ reqOutcomes = <<>>
    /\ reqSleeps = <<>>
    /\ reqRateWaits = 0

\* no historical_data call has been made
HdIdle ==
    /\ hdPc = "idle"
    /\ hdRef = NoRef
    /\ hdFrom = 0
    /\ hdTo = 0
    /\ hdToday = 0
    /\ hdChunks = <<>>
    /\ hdChunk = 0
    /\ hdCalls = <<>>
    /\ hdResp = <<>>
    /\ hdCombined = <<>>
    /\ hdOut = <<>>
    /\ hdError = "none"
    /\ hdLookups = 0

\* the factory after brokers/__init__.py has run: both registrations made,
\* no create_broker call observed
FactoryLoaded ==
    /\ registry = _broker_registry
    /\ regLog = << [broker_type |-> "upstox", broker_class |-> "UpstoxBroker"],
                   [broker_type |-> "Zerodha", broker_class |-> "ZerodhaBroker"] >>
    /\ created = <<>>

\* no API request has been made
ApiIdle ==
    /\ apiPc = "idle"
    /\ apiEndpoint = "none"
    /\ apiBrokerType = NoBroker
    /\ apiBody = <<>>
    /\ apiStage = "none"
    /\ apiStatus = 0
    /\ apiToken = -1
    /\ apiStore0 = -1
    /\ apiOutcome = "none"

Init ==
    /\ brokers \in Configs
    /\ broker_instances = {}
    /\ pc = "svc_init"
    /\ idx = 1
    /\ loopGen = 0
    /\ extPc = "idle"
    /\ extCur = NoBroker
    /\ extGen = 0
    /\ extCalls = 0
    /\ store = [t \in BrokerTypes |-> 0]
    /\ access_token = [t \in BrokerTypes |-> -1]
    /\ tokenGen = [t \in BrokerTypes |-> 0]
    /\ master_df = [t \in BrokerTypes |-> 0]
    /\ initCalls = [t \in BrokerTypes |-> 0]
    /\ master_data = [t \in BrokerTypes |-> <<>>]
    /\ init1 = [t \in BrokerTypes |-> <<>>]
    /\ feed \in {f \in Feeds : f.version = 0}
    /\ probeRes = [t \in BrokerTypes |-> "none"]
    /\ prevProbeRes = [t \in BrokerTypes |-> "none"]
    /\ rotCalls = [t \in BrokerTypes |-> 0]
    /\ prevRotCalls = [t \in BrokerTypes |-> 0]
    /\ rotRes = [t \in BrokerTypes |-> "none"]
    /\ rotSteps = [t \in BrokerTypes |-> <<>>]
    /\ rotPre = [t \in BrokerTypes |-> <<>>]
    /\ prevRotRes = [t \in BrokerTypes |-> "none"]
    /\ ReqIdle
    /\ HdIdle
    /\ FactoryLoaded
    /\ ApiIdle

(***************************************************************************)
(* Adapter: UpstoxBroker.initialize / ZerodhaBroker.initialize.            *)
(* fetch_access_token is a coroutine without a suspension point (a         *)
(* synchronous secrets-manager read), so the assignment of access_token    *)
(* runs with whatever precedes the call; the catalog download suspends.    *)
(***************************************************************************)
\* initialize(), first half: access_token is assigned the store's token
\* by call number g, the catalog is still the previous one
InitAssignToken(t, tok, g) ==
    /\ access_token' = [access_token EXCEPT ![t] = tok]
    /\ tokenGen' = [tokenGen EXCEPT ![t] = g]

\* a load that would add the downloaded rows to those already held
InitAssignCatalog_Appends(t, g) ==
    /\ master_df' = [master_df EXCEPT ![t] = g]
    /\ master_data' = [master_data EXCEPT ![t] = Append(@, feed)]

\* initialize(), second half after the download: master_data / master_df
\* are replaced by the catalog that call g loaded from the file served now
InitAssignCatalog(t, g) ==
    /\ master_df' = [master_df EXCEPT ![t] = g]
    /\ master_data' = [master_data EXCEPT ![t] = <<feed>>]

\* the record of a first successful initialize(): the token it read from
\* the store, the file it downloaded, and the access_token and
\* master_data it left on the adapter
FirstInit(stored, file, tok, data) ==
    [store |-> stored, feed |-> file, access_token |-> tok,
     master_data |-> data]

\* no initialize() of adapter t is running, and the last one that ran
\* raised (at the credential fetch, or at the catalog load): the call that
\* began last has not replaced master_df
InitRunning(t) ==
    \/ pc = "reinit_wait" /\ RegSeq[idx] = t
    \/ extPc = "reinit_wait" /\ extCur = t
LastInitFailed(t) ==
    /\ initCalls[t] > 0
    /\ ~InitRunning(t)
    /\ master_df[t] # initCalls[t]

\* the master_df of adapter t has column col
HasColumn(t, col) ==
    master_data[t] # <<>> /\ col \in master_data[t][1].columns

(***************************************************************************)
(* TokenRotationService.                                                   *)
(***************************************************************************)
\* mutants of ShouldRotate: rotate whatever the probe said; give up on a
\* broker whose last rotation failed
ShouldRotate_Always(res) == TRUE
ShouldRotate_GiveUp(res) == res = "fail" /\ prevRotRes[Cur] # "failed"

\* mutant of ShouldRotate: rotate the brokers whose probe succeeded
ShouldRotate_OnHealthy(res) == res = "ok"

\* check_all_tokens: rotate_token is called iff check_token_health
\* returned False
ShouldRotate(res) == res = "fail"

\* mutant of AfterCycleError: the exception ends start()
AfterCycleError_Exits == "exited"

\* start(): what follows an exception that escapes check_all_tokens
AfterCycleError == "backoff"

\* what the probe (ltp_quote of one index instrument) can return to
\* check_token_health: ZerodhaBroker.ltp_quote calls self.convert_quote,
\* which neither ZerodhaBroker nor BaseBroker defines, so every response
\* it gets ends in an exception; so does UpstoxBroker.convert_quote on a
\* master_df without the column tradingsymbol
ProbeOutcomes(t) ==
    IF create_broker(t) = "ZerodhaBroker" \/ ~HasColumn(t, "tradingsymbol")
    THEN {"fail"} ELSE {"ok", "fail"}

\* mutant of OnRotateError: the failure leaves rotate_token as an exception
OnRotateError_Raises == "raised"

\* rotate_token when the rotator cannot be resolved, rotate() returns a
\* statusCode other than 200 (which is what rotate() returns when the
\* authenticator raises), or the re-initialization raises: it logs and
\* returns False
OnRotateError == "failed"

\* mutant of Advance: the iteration ends after the first broker handled
Advance_StopsCycle == pc' = "sleep" /\ idx' = 1

\* mutant of Advance: the next cycle begins without the sleep
Advance_NoWait ==
    IF idx + 1 > Len(RegSeq)
    THEN pc' = "cycle_begin" /\ idx' = 1
    ELSE pc' = "probe" /\ idx' = idx + 1

\* the loop moves to the next registered broker, or ends the cycle and
\* sleeps health_check_interval
Advance ==
    IF idx + 1 > Len(RegSeq)
    THEN pc' = "sleep" /\ idx' = 1
    ELSE pc' = "probe" /\ idx' = idx + 1

\* TokenRotationService.initialize: one iteration of the loop over
\* self.brokers; the broker is registered only when initialize() returned
SvcInitialize ==
    /\ pc = "svc_init"
    /\ LET t == brokers[idx] IN
       /\ CanCreate(t)
       /\ \/ /\ broker_instances' = broker_instances \cup {t}
             /\ initCalls' = [initCalls EXCEPT ![t] = 1]
             /\ InitAssignToken(t, store[t], 1)
             /\ InitAssignCatalog(t, 1)
             /\ init1' = [init1 EXCEPT ![t] =
                             <<FirstInit(store[t], feed, access_token'[t],
                                         master_data'[t])>>]
          \/ /\ UNCHANGED <<broker_instances, initCalls, access_token,
                            tokenGen, master_df, master_data, init1>>
    /\ IF idx + 1 > Len(brokers)
       THEN pc' = "cycle_begin" /\ idx' = 1
       ELSE pc' = "svc_init" /\ idx' = idx + 1
    /\ UNCHANGED <<brokers, loopGen, extVars, store, histVars>>
    /\ UNCHANGED reqVars
    /\ UNCHANGED hdVars
    /\ UNCHANGED feedVars
    /\ UNCHANGED <<facVars, apiVars>>

\* check_all_tokens begins: a new cycle
CheckAllBegin ==
    /\ pc = "cycle_begin"
    /\ idx' = 1
    /\ pc' = IF RegSeq = <<>> THEN "sleep" ELSE "probe"
    /\ prevProbeRes' = probeRes
    /\ prevRotCalls' = rotCalls
    /\ prevRotRes' = rotRes
    /\ probeRes' = [t \in BrokerTypes |-> "none"]
    /\ rotCalls' = [t \in BrokerTypes |-> 0]
    /\ rotRes' = [t \in BrokerTypes |-> "none"]
    /\ rotSteps' = [t \in BrokerTypes |-> <<>>]
    /\ rotPre' = [t \in BrokerTypes |-> <<>>]
    /\ UNCHANGED <<brokers, broker_instances, loopGen, extVars,
                   adapterVars>>
    /\ UNCHANGED reqVars
    /\ UNCHANGED hdVars
    /\ UNCHANGED feedVars
    /\ UNCHANGED <<facVars, apiVars>>

\* an exception escapes check_all_tokens (a statement outside the
\* per-broker try raises): start() logs it and waits 60 s
CheckAllRaises ==
    /\ pc = "cycle_begin"
    /\ pc' = AfterCycleError
    /\ idx' = 1
    /\ UNCHANGED <<brokers, broker_instances, loopGen, extVars,
                   adapterVars, histVars>>
    /\ UNCHANGED reqVars
    /\ UNCHANGED hdVars
    /\ UNCHANGED feedVars
    /\ UNCHANGED <<facVars, apiVars>>

\* rotator.rotate() for broker type t, synchronous: the authenticator
\* fetches a token, store_token writes it to the store (it returns False
\* on failure and rotate() ignores the value), statusCode 200 is returned;
\* any exception of the authenticator gives statusCode 500.  token is the
\* store's entry afterwards, steps what ran, in order
rotate(t, auth_ok, store_ok) ==
    IF ~auth_ok
    THEN [statusCode |-> 500, token |-> store[t],
          steps |-> <<"fetch_raised", "status_500">>]
    ELSE [statusCode |-> 200,
          token |-> IF store_ok THEN store[t] + 1 ELSE store[t],
          steps |-> <<"fetch_ok",
                      IF store_ok THEN "store_ok" ELSE "store_failed",
                      "status_200">>]

\* mutant of Reinitializes: initialize() whatever rotate() returned
Reinitializes_Always(result) == TRUE

\* rotate_token: broker_object.initialize() is awaited iff
\* result.get("statusCode") == 200
Reinitializes(result) == result.statusCode = 200

\* what rotate_token finds when it is called for broker type t: the
\* store's token, and the access_token and master_df of the adapter
Snapshot(t) ==
    [store |-> store[t], access_token |-> access_token[t],
     master_df |-> master_df[t]]

\* rotate_token up to its first suspension point, for broker type t:
\* resolve the rotator class, run rotator.rotate() and, when Reinitializes,
\* enter adapter.initialize().
\* out: "resolve_error", "rotator_failed", "token_fetch_failed" (all three
\* make rotate_token return False) or "awaiting_catalog"
RotateBegin(t, out) ==
    \/ /\ ~RotatorResolves(t)
       /\ rotPre' = [rotPre EXCEPT ![t] = <<Snapshot(t)>>]
       /\ out = "resolve_error"
       /\ rotSteps' = [rotSteps EXCEPT ![t] = <<"resolve_error">>]
       /\ UNCHANGED adapterVars
    \/ /\ RotatorResolves(t)
       /\ rotPre' = [rotPre EXCEPT ![t] = <<Snapshot(t)>>]
       /\ \E auth_ok \in BOOLEAN, store_ok \in BOOLEAN :
            LET result == rotate(t, auth_ok, store_ok) IN
            /\ auth_ok /\ store_ok => store[t] < MaxTok
            /\ ~auth_ok => ~store_ok
            /\ store' = [store EXCEPT ![t] = result.token]
            /\ UNCHANGED <<master_df, master_data, init1>>
            /\ IF Reinitializes(result)
               THEN /\ initCalls' = [initCalls EXCEPT ![t] = @ + 1]
                    /\ \/ /\ out = "token_fetch_failed"
                          /\ UNCHANGED <<access_token, tokenGen>>
                          /\ rotSteps' = [rotSteps EXCEPT ![t] =
                                result.steps \o
                                <<"initialize", "initialize_raised">>]
                       \/ /\ out = "awaiting_catalog"
                          /\ InitAssignToken(t, store'[t], initCalls'[t])
                          /\ rotSteps' = [rotSteps EXCEPT ![t] =
                                Append(result.steps, "initialize")]
               ELSE /\ out = "rotator_failed"
                    /\ rotSteps' = [rotSteps EXCEPT ![t] = result.steps]
                    /\ UNCHANGED <<access_token, tokenGen, initCalls>>

RotateOuts == {"resolve_error", "rotator_failed", "token_fetch_failed",
               "awaiting_catalog"}
\* the outcomes in which rotator.rotate() returned 200 and initialize() ran
EntersInitialize == {"token_fetch_failed", "awaiting_catalog"}

\* the probe of the current broker returns healthy
ProbeHealthy ==
    /\ pc = "probe"
    /\ "ok" \in ProbeOutcomes(Cur)
    /\ probeRes' = [probeRes EXCEPT ![Cur] = "ok"]
    /\ IF ShouldRotate("ok")
       THEN /\ rotCalls' = [rotCalls EXCEPT ![Cur] = @ + 1]
            /\ rotRes' = [rotRes EXCEPT ![Cur] = "failed"]
       ELSE UNCHANGED <<rotCalls, rotRes>>
    /\ Advance
    /\ UNCHANGED <<brokers, broker_instances, loopGen, extVars,
                   adapterVars, prevProbeRes, prevRotCalls, prevRotRes,
                   rotSteps, rotPre>>
    /\ UNCHANGED reqVars
    /\ UNCHANGED hdVars
    /\ UNCHANGED feedVars
    /\ UNCHANGED <<facVars, apiVars>>

\* the probe of the current broker raises: check_token_health returns
\* False and rotate_token runs to its first suspension point or its return
ProbeUnhealthy ==
    /\ pc = "probe"
    /\ "fail" \in ProbeOutcomes(Cur)
    /\ probeRes' = [probeRes EXCEPT ![Cur] = "fail"]
    /\ IF ShouldRotate("fail")
       THEN \E out \in RotateOuts :
              /\ out \in EntersInitialize => initCalls[Cur] < MaxInits
              /\ RotateBegin(Cur, out)
              /\ rotCalls' = [rotCalls EXCEPT ![Cur] = @ + 1]
              /\ IF out = "awaiting_catalog"
                 THEN /\ pc' = "reinit_wait"
                      /\ idx' = idx
                      /\ loopGen' = initCalls'[Cur]
                      /\ rotRes' = [rotRes EXCEPT ![Cur] = "pending"]
                 ELSE /\ Advance
                      /\ loopGen' = loopGen
                      /\ rotRes' = [rotRes EXCEPT ![Cur] = OnRotateError]
       ELSE /\ Advance
            /\ UNCHANGED <<loopGen, adapterVars, rotCalls, rotRes, rotSteps,
                           rotPre>>
    /\ UNCHANGED <<brokers, broker_instances, extVars, prevProbeRes,
                   prevRotCalls, prevRotRes>>
    /\ UNCHANGED reqVars
    /\ UNCHANGED hdVars
    /\ UNCHANGED feedVars
    /\ UNCHANGED <<facVars, apiVars>>

\* the provider never answers the probe: ltp_quote stays suspended
ProbeHangs ==
    /\ pc = "probe"
    /\ pc' = "probe_stuck"
    /\ UNCHANGED <<brokers, broker_instances, idx, loopGen, extVars,
                   adapterVars, histVars>>
    /\ UNCHANGED reqVars
    /\ UNCHANGED hdVars
    /\ UNCHANGED feedVars
    /\ UNCHANGED <<facVars, apiVars>>

\* the catalog download of the loop's re-initialization ends: master_df is
\* replaced and rotate_token returns True, or initialize() raises and
\* rotate_token returns False
ReinitFinish ==
    /\ pc = "reinit_wait"
    /\ \/ /\ InitAssignCatalog(Cur, loopGen)
          /\ rotRes' = [rotRes EXCEPT ![Cur] = "ok"]
       \/ /\ UNCHANGED <<master_df, master_data>>
          /\ rotRes' = [rotRes EXCEPT ![Cur] = OnRotateError]
    /\ Advance
    /\ loopGen' = 0
    /\ UNCHANGED <<brokers, broker_instances, extVars, store,
                   access_token, tokenGen, initCalls, init1, probeRes,
                   prevProbeRes,
                   rotCalls, prevRotCalls, prevRotRes, rotPre>>
    /\ rotSteps' = [rotSteps EXCEPT ![Cur] =
                        Append(@, IF rotRes'[Cur] = "ok"
                                  THEN "initialize_returned"
                                  ELSE "initialize_raised")]
    /\ UNCHANGED reqVars
    /\ UNCHANGED hdVars
    /\ UNCHANGED feedVars
    /\ UNCHANGED <<facVars, apiVars>>

\* asyncio.sleep(health_check_interval) ends
Sleep ==
    /\ pc = "sleep"
    /\ pc' = "cycle_begin"
    /\ UNCHANGED <<brokers, broker_instances, idx, loopGen, extVars,
                   adapterVars, histVars>>
    /\ UNCHANGED reqVars
    /\ UNCHANGED hdVars
    /\ UNCHANGED feedVars
    /\ UNCHANGED <<facVars, apiVars>>

\* asyncio.sleep(60) after a cycle-level exception ends
Backoff ==
    /\ pc = "backoff"
    /\ pc' = "cycle_begin"
    /\ UNCHANGED <<brokers, broker_instances, idx, loopGen, extVars,
                   adapterVars, histVars>>
    /\ UNCHANGED reqVars
    /\ UNCHANGED hdVars
    /\ UNCHANGED feedVars
    /\ UNCHANGED <<facVars, apiVars>>

\* the task running start() is cancelled (process shutdown):
\* CancelledError is not an Exception, so no handler of the service
\* catches it
Cancel ==
    /\ pc \in {"svc_init", "probe", "probe_stuck", "reinit_wait", "sleep",
               "backoff"}
    /\ pc' = "cancelled"
    /\ UNCHANGED <<brokers, broker_instances, idx, loopGen, extVars,
                   adapterVars, histVars>>
    /\ UNCHANGED reqVars
    /\ UNCHANGED hdVars
    /\ UNCHANGED feedVars
    /\ UNCHANGED <<facVars, apiVars>>

\* another task calls the exposed rotate_token(t) for a registered broker
ExtRotate ==
    /\ extPc = "idle"
    /\ extCalls < MaxExtCalls
    /\ extCalls' = extCalls + 1
    /\ \E t \in broker_instances, out \in RotateOuts :
         /\ RotateBegin(t, out)
         /\ IF out = "awaiting_catalog"
            THEN extPc' = "reinit_wait" /\ extCur' = t
                 /\ extGen' = initCalls'[t]
            ELSE UNCHANGED <<extPc, extCur, extGen>>
    /\ UNCHANGED <<svcVars, probeRes, prevProbeRes, rotCalls, prevRotCalls,
                   rotRes, prevRotRes>>
    /\ UNCHANGED reqVars
    /\ UNCHANGED hdVars
    /\ UNCHANGED feedVars
    /\ UNCHANGED <<facVars, apiVars>>

\* that caller's catalog download ends
ExtReinitFinish ==
    /\ extPc = "reinit_wait"
    /\ \/ InitAssignCatalog(extCur, extGen)
       \/ UNCHANGED <<master_df, master_data>>
    /\ extPc' = "idle"
    /\ extCur' = NoBroker
    /\ extGen' = 0
    /\ UNCHANGED <<svcVars, extCalls, store, access_token, tokenGen,
                   initCalls, init1, histVars>>
    /\ UNCHANGED reqVars
    /\ UNCHANGED hdVars
    /\ UNCHANGED feedVars
    /\ UNCHANGED <<facVars, apiVars>>

LoopNext ==
    \/ SvcInitialize
    \/ CheckAllBegin
    \/ CheckAllRaises
    \/ ProbeHealthy
    \/ ProbeUnhealthy
    \/ ProbeHangs
    \/ ReinitFinish
    \/ Sleep
    \/ Backoff

\* the program as main.py wires it: start() is the only task that uses
\* the service
Next ==
    \/ LoopNext
    \/ Cancel

Spec == Init /\ [][Next]_vars

\* the event loop resumes every coroutine that is ready to run
FairSpec == Spec /\ WF_vars(LoopNext)

\* the service with another task calling its exposed rotate_token
ConcNext ==
    \/ LoopNext
    \/ Cancel
    \/ ExtRotate
    \/ ExtReinitFinish

ConcSpec == Init /\ [][ConcNext]_vars

\* the provider publishes a new instrument file at the feed URL
FeedPublish ==
    /\ feed.version < MaxFeed
    /\ feed' = [feed EXCEPT !.version = @ + 1]
    /\ UNCHANGED <<svcVars, extVars, adapterVars, histVars, reqVars, hdVars>>
    /\ UNCHANGED <<facVars, apiVars>>

\* the service while the provider may replace the instrument file
FeedNext ==
    \/ LoopNext
    \/ FeedPublish

FeedSpec == Init /\ [][FeedNext]_vars

(***************************************************************************)
(***************************************************************************)
(* Quote calls on an adapter: ltp_quote, ohlc_quote, full_market_quote.    *)
(***************************************************************************)
\* the instrument refs a caller may pass: a resolvable one, the same
\* exchange_token on another exchange, one whose instrument_type is not
\* the catalog's, and one whose exchange_token is not a number
RefSpace ==
    { [exchange_token |-> "1", exchange |-> "NSE", instrument_type |-> "EQ"],
      [exchange_token |-> "1", exchange |-> "BSE", instrument_type |-> "EQ"],
      [exchange_token |-> "1", exchange |-> "NSE", instrument_type |-> "FUT"],
      [exchange_token |-> "",  exchange |-> "NSE", instrument_type |-> "EQ"] }

\* int(exchange_token): the strings it accepts, and its value
IsIntStr(str) == str \in {"1", "7"}
IntOf(str) == CASE str = "1" -> 1 [] str = "7" -> 7 [] OTHER -> 0

\* the rows of an Upstox master_df as the loader leaves them: the
\* columns the quote operations filter on, and the symbol in the column
\* trading_symbol
UpstoxRows ==
    << [instrument_key |-> "NSE_EQ|A", exchange_token |-> 1,
        exchange |-> "NSE_EQ", trading_symbol |-> "A"],
       [instrument_key |-> "BSE_EQ|A", exchange_token |-> 1,
        exchange |-> "BSE_EQ", trading_symbol |-> "A"],
       [instrument_key |-> "NSE_FO|F", exchange_token |-> 7,
        exchange |-> "NSE_FO", trading_symbol |-> "F"] >>

\* row r read under the column name convert_quote uses: a file that has
\* the column tradingsymbol carries the row's symbol under both names
tradingsymbol(r) == r.trading_symbol

\* the rows of a Zerodha master_df
ZerodhaRows ==
    << [exchange_token |-> 1, exchange |-> "NSE", tradingsymbol |-> "A",
        instrument_type |-> "EQ"],
       [exchange_token |-> 1, exchange |-> "BSE", tradingsymbol |-> "A",
        instrument_type |-> "EQ"],
       [exchange_token |-> 7, exchange |-> "NFO", tradingsymbol |-> "F",
        instrument_type |-> "FUT"] >>

\* master_df.filter(...) of the resolution loop, for one ref
MatchRows(cls, ref) ==
    IF cls = "UpstoxBroker"
    THEN SelectSeq(UpstoxRows, LAMBDA r :
            /\ r.exchange_token = IntOf(ref.exchange_token)
            /\ r.exchange = ref.exchange \o "_" \o ref.instrument_type)
    ELSE SelectSeq(ZerodhaRows, LAMBDA r :
            /\ r.exchange_token = IntOf(ref.exchange_token)
            /\ r.exchange = ref.exchange)

\* one ref resolves: int() accepts the token and the filter is not empty
Resolvable(cls, ref) ==
    IsIntStr(ref.exchange_token) /\ MatchRows(cls, ref) # <<>>

\* the provider key of a resolvable ref: the first matching row
KeyOf(cls, ref) ==
    IF cls = "UpstoxBroker"
    THEN MatchRows(cls, ref)[1].instrument_key
    ELSE ref.exchange \o ":" \o MatchRows(cls, ref)[1].tradingsymbol

\* a resolution loop that would drop the refs it cannot resolve
RECURSIVE ResolveAll_Skip(_, _)
ResolveAll_Skip(cls, refs) ==
    IF refs = <<>> THEN [ok |-> TRUE, keys |-> <<>>]
    ELSE LET rest == ResolveAll_Skip(cls, Tail(refs))
         IN  IF Resolvable(cls, Head(refs))
             THEN [ok |-> TRUE, keys |-> <<KeyOf(cls, Head(refs))>> \o rest.keys]
             ELSE rest

\* the resolution loop at the head of every quote operation: the keys of
\* all refs in order, or a ValueError at the first ref that does not resolve
RECURSIVE ResolveAll(_, _)
ResolveAll(cls, refs) ==
    IF refs = <<>> THEN [ok |-> TRUE, keys |-> <<>>]
    ELSE IF ~Resolvable(cls, Head(refs)) THEN [ok |-> FALSE, keys |-> <<>>]
    ELSE LET rest == ResolveAll(cls, Tail(refs))
         IN  IF rest.ok
             THEN [ok |-> TRUE, keys |-> <<KeyOf(cls, Head(refs))>> \o rest.keys]
             ELSE rest

\* CHUNK_SIZE of each operation
CHUNK_SIZE(op) == IF op = "ltp_quote" THEN LtpChunk ELSE QuoteChunk

\* a split that would keep only the full batches
RECURSIVE Chunks_DropPartial(_, _)
Chunks_DropPartial(keys, size) ==
    IF Len(keys) < size THEN <<>>
    ELSE <<SubSeq(keys, 1, size)>>
         \o Chunks_DropPartial(SubSeq(keys, size + 1, Len(keys)), size)

\* [keys[i:i + size] for i in range(0, len(keys), size)]
RECURSIVE Chunks(_, _)
Chunks(keys, size) ==
    IF keys = <<>> THEN <<>>
    ELSE IF Len(keys) <= size THEN <<keys>>
    ELSE <<SubSeq(keys, 1, size)>> \o Chunks(SubSeq(keys, size + 1, Len(keys)), size)

\* chunks.index(chunk): the first position holding an equal chunk
ChunkIndex(chunks, chunk) ==
    CHOOSE i \in 1..Len(chunks) :
        chunks[i] = chunk /\ \A j \in 1..(i - 1) : chunks[j] # chunk

\* the operations an adapter class defines with the quote signature
QuoteOps(cls) ==
    IF cls = "UpstoxBroker"
    THEN {"ltp_quote", "ohlc_quote", "full_market_quote"}
    ELSE {"ltp_quote"}

\* valid_intervals of ohlc_quote, and the intervals a caller may pass
valid_intervals == {"1d", "I1", "I30"}
Intervals == {"1d", "5m"}

\* what the provider may answer to one call.  "ok_unknown_key" is a success
\* response in which one entry carries an instrument_token that no row of
\* master_df has
Outcomes == {"ok", "ok_unknown_key", "no_data", "unsuccessful", "http_error",
             "rate_limited"}

\* the first row of master_df.filter(instrument_key == key)
RowOfKey(key) ==
    SelectSeq(UpstoxRows, LAMBDA r : r.instrument_key = key)[1]

\* a dict after d[k] = v
DictSet(d, k, v) ==
    [x \in DOMAIN d \cup {k} |-> IF x = k THEN v ELSE d[x]]

\* str.split("_") on the values of the Upstox exchange column
SplitExchange(str) ==
    CASE str = "NSE_EQ" -> <<"NSE", "EQ">>
      [] str = "BSE_EQ" -> <<"BSE", "EQ">>
      [] str = "NSE_FO" -> <<"NSE", "FO">>
      [] OTHER -> <<str>>

\* UpstoxBroker.convert_quote on a response that carries one entry per
\* requested key: each entry gets the trading_symbol and instrument_type
\* of its row and is re-keyed to the row's exchange_token, a later entry
\* replacing an earlier one under the same exchange_token
RECURSIVE convert_quote(_, _)
convert_quote(keys, out) ==
    IF keys = <<>> THEN out
    ELSE LET r == RowOfKey(Head(keys))
         IN  convert_quote(Tail(keys),
                 DictSet(out, r.exchange_token,
                         [instrument_token |-> Head(keys),
                          trading_symbol |-> tradingsymbol(r),
                          instrument_type |-> SplitExchange(r.exchange)[2]]))

\* the HTTP call for batch k: the bearer token is read from the adapter now
IssueCall(t, chunks, k) ==
    /\ reqCalls' = Append(reqCalls, [keys |-> chunks[k],
                                     token |-> access_token[t]])
    /\ reqChunk' = k
    /\ reqPc' = "await_http"

\* a failed batch that would be logged and skipped
QuoteRaise_SkipBatch(err) ==
    /\ reqPc' = "sleeping"
    /\ reqError' = reqError

\* the call ends with an exception of class err
QuoteRaise(err) ==
    /\ reqPc' = "failed"
    /\ reqError' = err

\* a quote operation is called on a registered adapter and runs to its
\* first suspension point: interval validation (ohlc_quote), resolution of
\* every ref, chunking, and the first provider call
QuoteStart ==
    /\ reqPc = "idle"
    /\ \E t \in broker_instances, n \in 0..MaxRefs, interval \in Intervals :
       \E op \in QuoteOps(create_broker(t)), refs \in [1..n -> RefSpace] :
         /\ op # "ohlc_quote" => interval = "1d"
         /\ reqBroker' = t
         /\ reqOp' = op
         /\ reqRefs' = refs
         /\ reqTok0' = access_token[t]
         /\ reqCat0' = master_df[t]
         /\ reqInitBad' = LastInitFailed(t)
         /\ LET res == ResolveAll(create_broker(t), refs)
                chunks == Chunks(res.keys, CHUNK_SIZE(op))
            IN  IF op = "ohlc_quote" /\ interval \notin valid_intervals
                THEN /\ QuoteRaise("ValueError")
                     /\ UNCHANGED <<reqChunks, reqChunk, reqCalls>>
                ELSE IF ~res.ok
                THEN /\ QuoteRaise("ValueError")
                     /\ UNCHANGED <<reqChunks, reqChunk, reqCalls>>
                ELSE IF chunks = <<>>
                THEN /\ reqPc' = "done"
                     /\ UNCHANGED <<reqChunks, reqChunk, reqCalls, reqError>>
                ELSE /\ reqChunks' = chunks
                     /\ IssueCall(t, chunks, 1)
                     /\ UNCHANGED reqError
    /\ UNCHANGED <<reqCatUsed, reqResult, reqOutcomes, reqSleeps,
                   reqRateWaits>>
    /\ UNCHANGED <<svcVars, extVars, adapterVars, histVars>>
    /\ UNCHANGED hdVars
    /\ UNCHANGED feedVars
    /\ UNCHANGED <<facVars, apiVars>>

\* after a converted batch: the 1 s pause or the return.  ltp_quote and
\* full_market_quote of UpstoxBroker test chunks.index(chunk), ohlc_quote
\* tests the batch number
PausesAfter(op, chunks, k) ==
    IF op = "ohlc_quote" THEN k < Len(chunks)
    ELSE ChunkIndex(chunks, chunks[k]) < Len(chunks)

\* the provider answers the call in flight
QuoteResponse ==
    /\ reqPc = "await_http"
    /\ \E outcome \in Outcomes :
         /\ reqOutcomes' = Append(reqOutcomes, outcome)
         /\ reqSleeps' =
               IF /\ create_broker(reqBroker) = "UpstoxBroker"
                  /\ outcome = "ok"
                  /\ HasColumn(reqBroker, "tradingsymbol")
                  /\ PausesAfter(reqOp, reqChunks, reqChunk)
               THEN Append(reqSleeps, Len(reqCalls))
               ELSE reqSleeps
         /\ reqRateWaits' =
               IF /\ create_broker(reqBroker) = "UpstoxBroker"
                  /\ outcome = "rate_limited" /\ reqOp = "ohlc_quote"
               THEN reqRateWaits + 1
               ELSE reqRateWaits
         /\ IF create_broker(reqBroker) = "ZerodhaBroker"
            THEN \* a good response reaches self.convert_quote, which the
                 \* class does not have: the merge and the sleep(1) that
                 \* follow it are never reached
                 /\ QuoteRaise(IF outcome \in {"ok", "ok_unknown_key"}
                               THEN "AttributeError" ELSE "Exception")
                 /\ UNCHANGED <<reqCatUsed, reqResult>>
            ELSE CASE outcome \in {"ok", "ok_unknown_key"}
                      /\ ~HasColumn(reqBroker, "tradingsymbol") ->
                   \* convert_quote reads temp_df["tradingsymbol"]; its
                   \* except clause re-raises
                   /\ QuoteRaise("ColumnNotFoundError")
                   /\ reqCatUsed' = Append(reqCatUsed, master_df[reqBroker])
                   /\ UNCHANGED reqResult
                [] outcome = "ok" ->
                   /\ reqCatUsed' = Append(reqCatUsed, master_df[reqBroker])
                   /\ reqResult' = convert_quote(reqChunks[reqChunk], reqResult)
                   /\ reqPc' = IF PausesAfter(reqOp, reqChunks, reqChunk)
                               THEN "sleeping" ELSE "done"
                   /\ UNCHANGED reqError
                [] outcome = "ok_unknown_key" ->
                   \* convert_quote indexes row 0 of the empty filter
                   \* result (temp_df["tradingsymbol"][0]) before it tests
                   \* temp_df.is_empty(); its except clause re-raises
                   /\ QuoteRaise("IndexError")
                   /\ reqCatUsed' = Append(reqCatUsed, master_df[reqBroker])
                   /\ UNCHANGED reqResult
                [] outcome = "no_data" ->
                   /\ QuoteRaise("ValueError")
                   /\ UNCHANGED <<reqCatUsed, reqResult>>
                [] outcome = "rate_limited" /\ reqOp = "ohlc_quote" ->
                   /\ reqPc' = "rate_wait"
                   /\ UNCHANGED <<reqError, reqCatUsed, reqResult>>
                [] OTHER ->
                   /\ QuoteRaise("Exception")
                   /\ UNCHANGED <<reqCatUsed, reqResult>>
    /\ UNCHANGED <<reqBroker, reqOp, reqRefs, reqChunks, reqChunk, reqCalls,
                   reqTok0, reqCat0, reqInitBad>>
    /\ UNCHANGED <<svcVars, extVars, adapterVars, histVars>>
    /\ UNCHANGED hdVars
    /\ UNCHANGED feedVars
    /\ UNCHANGED <<facVars, apiVars>>

\* asyncio.sleep(1) ends: the loop goes to the next batch, or returns when
\* the batch it paused after was the last
QuoteWake ==
    /\ reqPc = "sleeping"
    /\ IF reqChunk < Len(reqChunks)
       THEN IssueCall(reqBroker, reqChunks, reqChunk + 1)
       ELSE reqPc' = "done" /\ UNCHANGED <<reqChunk, reqCalls>>
    /\ UNCHANGED <<reqBroker, reqOp, reqRefs, reqChunks, reqCatUsed,
                   reqResult, reqError, reqTok0, reqCat0, reqInitBad,
                   reqOutcomes,
                   reqSleeps, reqRateWaits>>
    /\ UNCHANGED <<svcVars, extVars, adapterVars, histVars>>
    /\ UNCHANGED hdVars
    /\ UNCHANGED feedVars
    /\ UNCHANGED <<facVars, apiVars>>

\* ohlc_quote: the 60 s wait after an HTTP 429 ends and the call raises
QuoteRateWaitEnds ==
    /\ reqPc = "rate_wait"
    /\ QuoteRaise("Exception")
    /\ UNCHANGED <<reqBroker, reqOp, reqRefs, reqChunks, reqChunk, reqCalls,
                   reqCatUsed, reqResult, reqTok0, reqCat0, reqInitBad,
                   reqOutcomes,
                   reqSleeps, reqRateWaits>>
    /\ UNCHANGED <<svcVars, extVars, adapterVars, histVars>>
    /\ UNCHANGED hdVars
    /\ UNCHANGED feedVars
    /\ UNCHANGED <<facVars, apiVars>>

\* the service after TokenRotationService.initialize registered both
\* brokers of the configuration, before its first cycle
QuoteInit ==
    /\ brokers = <<"upstox", "zerodha">>
    /\ broker_instances = {"upstox", "zerodha"}
    /\ pc = "cycle_begin"
    /\ idx = 1
    /\ loopGen = 0
    /\ extPc = "idle"
    /\ extCur = NoBroker
    /\ extGen = 0
    /\ extCalls = 0
    /\ store = [t \in BrokerTypes |-> 0]
    /\ access_token = [t \in BrokerTypes |->
                         IF t \in {"upstox", "zerodha"} THEN 0 ELSE -1]
    /\ tokenGen = [t \in BrokerTypes |->
                     IF t \in {"upstox", "zerodha"} THEN 1 ELSE 0]
    /\ master_df = tokenGen
    /\ initCalls = tokenGen
    /\ feed \in {f \in Feeds : f.version = 0}
    /\ master_data = [t \in BrokerTypes |->
                        IF t \in {"upstox", "zerodha"} THEN <<feed>> ELSE <<>>]
    /\ init1 = [t \in BrokerTypes |->
                  IF t \in {"upstox", "zerodha"}
                  THEN <<FirstInit(0, feed, 0, <<feed>>)>> ELSE <<>>]
    /\ probeRes = [t \in BrokerTypes |-> "none"]
    /\ prevProbeRes = [t \in BrokerTypes |-> "none"]
    /\ rotCalls = [t \in BrokerTypes |-> 0]
    /\ prevRotCalls = [t \in BrokerTypes |-> 0]
    /\ rotRes = [t \in BrokerTypes |-> "none"]
    /\ rotSteps = [t \in BrokerTypes |-> <<>>]
    /\ rotPre = [t \in BrokerTypes |-> <<>>]
    /\ prevRotRes = [t \in BrokerTypes |-> "none"]
    /\ ReqIdle
    /\ HdIdle
    /\ FactoryLoaded
    /\ ApiIdle

\* one quote call on a registered adapter while another task rotates the
\* broker's token through rotate_token
QuoteNext ==
    \/ QuoteStart
    \/ QuoteResponse
    \/ QuoteWake
    \/ QuoteRateWaitEnds
    \/ ExtRotate
    \/ ExtReinitFinish

QuoteSpec == QuoteInit /\ [][QuoteNext]_vars

(***************************************************************************)
(* UpstoxBroker.historical_data.  Dates are day numbers; a candle is its   *)
(* datetime, and with daily candles the datetime is the day.               *)
(***************************************************************************)
Days == 0..MaxDay

Min(a, b) == IF a <= b THEN a ELSE b

\* a split whose chunks end one day later than the source's
RECURSIVE DateChunks_LongSpan(_, _)
DateChunks_LongSpan(chunk_start, to_dt) ==
    IF chunk_start < to_dt
    THEN LET chunk_end == Min(chunk_start + ChunkDays + 1, to_dt)
         IN  <<<<chunk_start, chunk_end>>>>
                 \o DateChunks_LongSpan(chunk_end + 1, to_dt)
    ELSE <<>>

\* the while loop that splits [from_dt, to_dt] into date_chunks, from
\* chunk_start on
RECURSIVE DateChunks(_, _)
DateChunks(chunk_start, to_dt) ==
    IF chunk_start < to_dt
    THEN LET chunk_end == Min(chunk_start + ChunkDays, to_dt)
         IN  <<<<chunk_start, chunk_end>>>> \o DateChunks(chunk_end + 1, to_dt)
    ELSE <<>>

\* sort('datetime') of a column: insertion of one value, then the sort
RECURSIVE InsertSorted(_, _)
InsertSorted(x, sq) ==
    IF sq = <<>> THEN <<x>>
    ELSE IF x < Head(sq) THEN <<x>> \o sq
    ELSE <<Head(sq)>> \o InsertSorted(x, Tail(sq))

RECURSIVE SortByDatetime(_)
SortByDatetime(sq) ==
    IF sq = <<>> THEN <<>> ELSE InsertSorted(Head(sq), SortByDatetime(Tail(sq)))

\* the datetime column of a response's candles, sorted
RECURSIVE SortedOf(_)
SortedOf(S) ==
    IF S = {} THEN <<>>
    ELSE LET m == CHOOSE x \in S : \A y \in S : x <= y
         IN  <<m>> \o SortedOf(S \ {m})

\* what the provider may answer to the request of one date chunk: a
\* non-200 status, a 200 whose status is not 'success', a 200 without
\* 'data', or a 200 with candles (possibly none)
HistResponses ==
    [outcome : {"http_error", "unsuccessful", "no_data"}, candles : {{}}]
    \cup [outcome : {"ok"}, candles : SUBSET Days]

\* a reading of the response in which a chunk without candles ends the call
ChunkAction_EmptyRaises(resp, chunk_to, today) ==
    CASE resp.outcome # "ok" -> "skip"
      [] resp.candles = {} -> "raise"
      [] chunk_to = today /\ today \notin resp.candles -> "raise"
      [] OTHER -> "merge"

\* what historical_data does with the response to one chunk: log and go
\* on (non-200, unsuccessful, no 'data', no candles), merge the candles, or
\* (_convert_to_polars_df, to_date is today and no candle bears today's
\* date) call self.full_market_quote(exchange_token=, exchange=,
\* instrument_type=), whose only parameter is request_data: a TypeError
ChunkAction(resp, chunk_to, today) ==
    CASE resp.outcome # "ok" -> "skip"
      [] resp.candles = {} -> "skip"
      [] chunk_to = today /\ today \notin resp.candles -> "raise"
      [] OTHER -> "merge"

\* a merge that would keep only the latest chunk's candles
Concat_Replace(combined, chunk_df) == chunk_df

\* combined_df after a non-empty chunk_df: chunk_df itself when combined_df
\* is None, pl.concat([combined_df, chunk_df]) otherwise
Concat(combined, chunk_df) == combined \o chunk_df

\* the request of date chunk k is sent
HistIssue(chunks, k) ==
    /\ hdCalls' = Append(hdCalls, chunks[k])
    /\ hdChunk' = k
    /\ hdPc' = "await_http"

\* after the loop over date_chunks: the sorted candles, or [] when
\* combined_df is None
HistReturn(combined) ==
    /\ hdPc' = "done"
    /\ hdOut' = SortByDatetime(combined)

\* historical_data is called and runs to its first suspension point: the
\* instrument is validated, the date range is split, the first chunk is
\* requested
HistStart ==
    /\ hdPc = "idle"
    /\ "upstox" \in broker_instances
    /\ master_df["upstox"] # 0
    /\ \E ref \in RefSpace, from_dt \in Days, to_dt \in Days, today \in Days :
         /\ hdRef' = ref
         /\ hdFrom' = from_dt
         /\ hdTo' = to_dt
         /\ hdToday' = today
         /\ IF ~Resolvable("UpstoxBroker", ref)
            THEN /\ hdPc' = "failed"
                 /\ hdError' = "ValueError"
                 /\ UNCHANGED <<hdChunks, hdChunk, hdCalls, hdOut>>
            ELSE LET date_chunks == DateChunks(from_dt, to_dt)
                 IN  /\ hdChunks' = date_chunks
                     /\ UNCHANGED hdError
                     /\ IF date_chunks = <<>>
                        THEN /\ HistReturn(hdCombined)
                             /\ UNCHANGED <<hdChunk, hdCalls>>
                        ELSE /\ HistIssue(date_chunks, 1)
                             /\ UNCHANGED hdOut
    /\ UNCHANGED <<hdResp, hdCombined, hdLookups>>
    /\ UNCHANGED <<svcVars, extVars, adapterVars, histVars, reqVars>>
    /\ UNCHANGED feedVars
    /\ UNCHANGED <<facVars, apiVars>>

\* the provider answers the request of the current date chunk
HistResponse ==
    /\ hdPc = "await_http"
    /\ \E resp \in HistResponses :
         LET act == ChunkAction(resp, hdChunks[hdChunk][2], hdToday)
             combined == IF act = "merge"
                         THEN Concat(hdCombined, SortedOf(resp.candles))
                         ELSE hdCombined
         IN  /\ hdResp' = Append(hdResp, resp)
             /\ hdLookups' = IF act = "raise" THEN hdLookups + 1
                              ELSE hdLookups
             /\ IF act = "raise"
                THEN /\ hdPc' = "failed"
                     /\ hdError' = "TypeError"
                     /\ UNCHANGED <<hdCombined, hdOut>>
                ELSE /\ hdCombined' = combined
                     /\ UNCHANGED hdError
                     /\ IF hdChunk < Len(hdChunks)
                        THEN hdPc' = "sleeping" /\ UNCHANGED hdOut
                        ELSE HistReturn(combined)
    /\ UNCHANGED <<hdRef, hdFrom, hdTo, hdToday, hdChunks, hdChunk, hdCalls>>
    /\ UNCHANGED <<svcVars, extVars, adapterVars, histVars, reqVars>>
    /\ UNCHANGED feedVars
    /\ UNCHANGED <<facVars, apiVars>>

\* asyncio.sleep(1) between two date chunks ends: the next is requested
HistWake ==
    /\ hdPc = "sleeping"
    /\ HistIssue(hdChunks, hdChunk + 1)
    /\ UNCHANGED <<hdRef, hdFrom, hdTo, hdToday, hdChunks, hdResp,
                   hdCombined, hdOut, hdError, hdLookups>>
    /\ UNCHANGED <<svcVars, extVars, adapterVars, histVars, reqVars>>
    /\ UNCHANGED feedVars
    /\ UNCHANGED <<facVars, apiVars>>

\* one historical_data call on the service's initialized UpstoxBroker
HistNext ==
    \/ HistStart
    \/ HistResponse
    \/ HistWake

HistSpec == QuoteInit /\ [][HistNext]_vars

(***************************************************************************)
(* BrokerFactory: register_broker and create_broker on the class-level     *)
(* registry, from the empty registry of the class body.                    *)
(***************************************************************************)
\* the broker-type strings callers pass, and the adapter classes
FactoryTypes == {"upstox", "Upstox", "zerodha", "Zerodha", "angel"}
BrokerClasses == {"UpstoxBroker", "ZerodhaBroker"}

\* a registration that would store the class under the type as given
register_broker_KeyAsGiven(broker_type, broker_class) ==
    /\ Len(regLog) < MaxRegs
    /\ registry' = DictSet(registry, broker_type, broker_class)
    /\ regLog' = Append(regLog, [broker_type |-> broker_type,
                                 broker_class |-> broker_class])
    /\ UNCHANGED created
    /\ UNCHANGED <<svcVars, extVars, adapterVars, histVars, reqVars, hdVars>>
    /\ UNCHANGED <<feedVars, apiVars>>

\* BrokerFactory.register_broker:
\* cls._broker_registry[broker_type.lower()] = broker_class
register_broker(broker_type, broker_class) ==
    /\ Len(regLog) < MaxRegs
    /\ registry' = DictSet(registry, Lower(broker_type), broker_class)
    /\ regLog' = Append(regLog, [broker_type |-> broker_type,
                                 broker_class |-> broker_class])
    /\ UNCHANGED created
    /\ UNCHANGED <<svcVars, extVars, adapterVars, histVars, reqVars, hdVars>>
    /\ UNCHANGED <<feedVars, apiVars>>

RegisterBroker ==
    \E broker_type \in FactoryTypes, broker_class \in BrokerClasses :
        register_broker(broker_type, broker_class)

\* BrokerFactory.create_broker on the registry as it is now: the type is
\* lower-cased, an absent key raises ValueError, otherwise the class stored
\* under the key is instantiated
CreateBroker ==
    /\ \E broker_type \in FactoryTypes :
         created' = << [broker_type |-> broker_type,
                        at |-> Len(regLog),
                        result |-> IF Lower(broker_type) \notin DOMAIN registry
                                   THEN "ValueError"
                                   ELSE registry[Lower(broker_type)]] >>
    /\ UNCHANGED <<registry, regLog>>
    /\ UNCHANGED <<svcVars, extVars, adapterVars, histVars, reqVars, hdVars>>
    /\ UNCHANGED <<feedVars, apiVars>>

\* the factory right after its class body: _broker_registry = {}
FactoryInit ==
    /\ brokers \in Configs
    /\ broker_instances = {}
    /\ pc = "svc_init"
    /\ idx = 1
    /\ loopGen = 0
    /\ extPc = "idle"
    /\ extCur = NoBroker
    /\ extGen = 0
    /\ extCalls = 0
    /\ store = [t \in BrokerTypes |-> 0]
    /\ access_token = [t \in BrokerTypes |-> -1]
    /\ tokenGen = [t \in BrokerTypes |-> 0]
    /\ master_df = [t \in BrokerTypes |-> 0]
    /\ initCalls = [t \in BrokerTypes |-> 0]
    /\ master_data = [t \in BrokerTypes |-> <<>>]
    /\ init1 = [t \in BrokerTypes |-> <<>>]
    /\ feed \in {f \in Feeds : f.version = 0}
    /\ probeRes = [t \in BrokerTypes |-> "none"]
    /\ prevProbeRes = [t \in BrokerTypes |-> "none"]
    /\ rotCalls = [t \in BrokerTypes |-> 0]
    /\ prevRotCalls = [t \in BrokerTypes |-> 0]
    /\ rotRes = [t \in BrokerTypes |-> "none"]
    /\ rotSteps = [t \in BrokerTypes |-> <<>>]
    /\ rotPre = [t \in BrokerTypes |-> <<>>]
    /\ prevRotRes = [t \in BrokerTypes |-> "none"]
    /\ ReqIdle
    /\ HdIdle
    /\ registry = <<>>
    /\ regLog = <<>>
    /\ created = <<>>
    /\ ApiIdle

FactoryNext ==
    \/ RegisterBroker
    \/ CreateBroker

FactorySpec == FactoryInit /\ [][FactoryNext]_vars

(***************************************************************************)
(* API endpoints: the get_broker dependency and the four data routes.      *)
(* Every request builds and initializes an adapter of its own.             *)
(***************************************************************************)
Endpoints == {"ltp-quote", "ohlc-quote", "full-mkt-quote", "historical-data"}

\* the adapter method a route calls
EndpointOp(e) ==
    CASE e = "ltp-quote"       -> "ltp_quote"
      [] e = "ohlc-quote"      -> "ohlc_quote"
      [] e = "full-mkt-quote"  -> "full_market_quote"
      [] e = "historical-data" -> "historical_data"

\* the request bodies: a list of instruments for the quote routes, one
\* instrument (with interval and dates present) for historical-data
Bodies(e) ==
    IF e = "historical-data"
    THEN {<<ref>> : ref \in RefSpace}
    ELSE UNION {[1..n -> RefSpace] : n \in 0..MaxBody}

\* the try/except of every data route: a non-empty result is returned, an
\* empty one raises HTTPException(404) inside the try, which the
\* `except Exception` clause catches and turns into 500 like any other
\* exception; ValueError becomes 400
Answer(outcome) ==
    CASE outcome = "data"       -> 200
      [] outcome = "ValueError" -> 400
      [] OTHER                  -> 500

\* the adapter class the request's broker_type was created as
ApiClass == registry[Lower(apiBrokerType)]

\* the call of the adapter method up to its first suspension point:
\* "pending" when the adapter goes on to the provider, otherwise how the
\* call ended
Dispatch(cls, e, body) ==
    IF e = "historical-data"
    THEN IF body[1].exchange_token = "" THEN "ValueError"
         ELSE IF cls # "UpstoxBroker" THEN "empty"
         ELSE IF ~Resolvable(cls, body[1]) THEN "ValueError"
         ELSE "pending"
    ELSE IF EndpointOp(e) \notin QuoteOps(cls)
         THEN IF e = "ohlc-quote" THEN "AttributeError" ELSE "TypeError"
         ELSE IF ~ResolveAll(cls, body).ok THEN "ValueError"
         ELSE IF body = <<>> THEN "empty"
         ELSE "pending"

\* how an adapter call that went to the provider may end
BrokerEnds(cls, e) ==
    IF cls # "UpstoxBroker" THEN {"Exception"}
    ELSE IF e = "historical-data"
         THEN {"data", "empty", "ValueError", "Exception"}
         ELSE {"empty", "ValueError", "Exception"}
              \cup (IF "tradingsymbol" \in feed.columns
                    THEN {"data"} ELSE {})

\* the token store entry the adapters of class cls read and their
\* rotator writes: one secret per broker, named by the type the service
\* is configured with
StoredToken(cls) ==
    store[CHOOSE t \in {brokers[i] : i \in 1..Len(brokers)} :
              create_broker(t) = cls]

\* a get_broker that would hand out the adapter the service holds
RequestToken_SharedAdapter(cls) ==
    access_token[CHOOSE t \in {brokers[i] : i \in 1..Len(brokers)} :
                     create_broker(t) = cls]

\* the access_token of the adapter get_broker builds: create_broker makes
\* a new object and its initialize() reads the store
\* (fetch_access_token -> get_current_token), without a suspension point
\* since the request arrived
RequestToken(cls) == StoredToken(cls)

\* a request arrives (one request is followed from its arrival to its
\* response): get_broker reads the configuration, creates the adapter and
\* starts its initialize(); every exception becomes 500
ApiRequest ==
    /\ apiPc = "idle"
    /\ \E e \in Endpoints, bt \in FactoryTypes, cfg_ok \in BOOLEAN :
         /\ apiEndpoint' = e
         /\ apiBrokerType' = bt
         /\ \E body \in Bodies(e) : apiBody' = body
         /\ apiOutcome' = "none"
         /\ IF cfg_ok /\ Lower(bt) \in DOMAIN registry
            THEN /\ apiPc' = "initializing"
                 /\ apiStage' = "get_broker"
                 /\ apiStatus' = 0
                 /\ apiToken' = RequestToken(registry[Lower(bt)])
                 /\ apiStore0' = StoredToken(registry[Lower(bt)])
            ELSE /\ apiPc' = "answered"
                 /\ apiStage' = "get_broker"
                 /\ apiStatus' = 500
                 /\ apiToken' = -1
                 /\ apiStore0' = -1
    /\ UNCHANGED <<svcVars, extVars, adapterVars, histVars, reqVars, hdVars>>
    /\ UNCHANGED <<feedVars, facVars>>

\* initialize() of the request's adapter ends: a failure is answered 500
\* by get_broker, otherwise the route's handler runs and calls the adapter
ApiInitialized ==
    /\ apiPc = "initializing"
    /\ \E init_ok \in BOOLEAN :
         IF ~init_ok
         THEN /\ apiPc' = "answered"
              /\ apiStatus' = 500
              /\ UNCHANGED <<apiStage, apiOutcome>>
         ELSE LET d == Dispatch(ApiClass, apiEndpoint, apiBody)
              IN  /\ apiStage' = "handler"
                  /\ IF d = "pending"
                     THEN /\ apiPc' = "in_broker"
                          /\ UNCHANGED <<apiStatus, apiOutcome>>
                     ELSE /\ apiPc' = "answered"
                          /\ apiOutcome' = d
                          /\ apiStatus' = Answer(d)
    /\ UNCHANGED <<apiEndpoint, apiBrokerType, apiBody, apiToken, apiStore0>>
    /\ UNCHANGED <<svcVars, extVars, adapterVars, histVars, reqVars, hdVars>>
    /\ UNCHANGED <<feedVars, facVars>>

\* the adapter call returns or raises and the handler answers
ApiBrokerReturns ==
    /\ apiPc = "in_broker"
    /\ \E outcome \in BrokerEnds(ApiClass, apiEndpoint) :
         /\ apiOutcome' = outcome
         /\ apiStatus' = Answer(outcome)
    /\ apiPc' = "answered"
    /\ UNCHANGED <<apiEndpoint, apiBrokerType, apiBody, apiStage, apiToken,
                   apiStore0>>
    /\ UNCHANGED <<svcVars, extVars, adapterVars, histVars, reqVars, hdVars>>
    /\ UNCHANGED <<feedVars, facVars>>

ApiNext ==
    \/ ApiRequest
    \/ ApiInitialized
    \/ ApiBrokerReturns

ApiSpec == Init /\ [][ApiNext]_vars

\* the API beside a service whose rotate_token is running for one of its
\* registered brokers
ApiRotNext ==
    \/ ApiNext
    \/ ExtRotate
    \/ ExtReinitFinish

ApiRotSpec == QuoteInit /\ [][ApiRotNext]_vars

(***************************************************************************)
(* Claims about the health-check loop.                                     *)
(***************************************************************************)
\* the brokers of the configuration, and those whose initialize() failed
\* while the service was initializing
Configured == {brokers[i] : i \in 1..Len(brokers)}
InitFailed(t) == pc # "svc_init" /\ t \in Configured /\ t \notin broker_instances

\* the loop is inside the cycle and already past position j of the dict
Past(j) == \/ pc = "sleep"
           \/ pc \in {"probe", "probe_stuck", "reinit_wait"} /\ j < idx

\* C1: start() never terminates on a broker-level or cycle-level error:
\* whatever the probes, rotations and re-initializations return, and also
\* when an exception escapes check_all_tokens, the loop begins another
\* health-check cycle again and again, unless the task is cancelled or a
\* provider call never returns.
C1_LoopNeverExits ==
    \/ []<>(pc = "cycle_begin")
    \/ <>[](pc \in {"cancelled", "probe_stuck"})

\* C1 witness: an exception escaped check_all_tokens after a cycle in which
\* a rotation had failed, and the loop is in its 60 s backoff
C1_Witness ==
    pc = "backoff" /\ \E t \in broker_instances : rotRes[t] = "failed"

\* C2: within one cycle every registered broker the loop has passed was
\* probed, and rotate_token was called for it exactly when its own probe
\* failed, whatever happened for the brokers before it.
C2_BrokersIndependent ==
    \A j \in 1..Len(RegSeq) :
        Past(j) =>
            /\ probeRes[RegSeq[j]] # "none"
            /\ rotCalls[RegSeq[j]] =
                   (IF probeRes[RegSeq[j]] = "fail" THEN 1 ELSE 0)

\* C2 witness: a cycle ended in which the rotation of the first broker
\* failed and the second broker was probed and found healthy
C2_Witness ==
    /\ pc = "sleep"
    /\ Len(RegSeq) = 2
    /\ rotRes[RegSeq[1]] = "failed"
    /\ probeRes[RegSeq[2]] = "ok"
    /\ rotCalls[RegSeq[2]] = 0

\* C3: when a broker's probe failed in one cycle and succeeds in the next,
\* the loop has called rotate_token for it exactly once over the two
\* cycles, in the failing one, and the broker ends healthy with no
\* rotation of the loop pending.
C3_RotatesExactlyOnce ==
    \A t \in BrokerTypes :
        (prevProbeRes[t] = "fail" /\ probeRes[t] = "ok") =>
            /\ prevRotCalls[t] = 1
            /\ rotCalls[t] = 0
            /\ rotRes[t] = "none"

\* C3 witness: such a pair of cycles has ended
C3_Witness ==
    /\ pc = "sleep"
    /\ prevProbeRes["upstox"] = "fail"
    /\ probeRes["upstox"] = "ok"
    /\ prevRotCalls["upstox"] = 1

\* C4 (as claimed): a broker whose initialize() failed while the service
\* was initializing is probed, rotated or re-initialized in a later cycle.
C4_InitFailureRetried ==
    \A t \in BrokerTypes :
        [](InitFailed(t) =>
             <>(\/ t \in broker_instances
                \/ probeRes[t] # "none"
                \/ rotCalls[t] > 0
                \/ initCalls[t] > 0
                \/ pc \in {"cancelled", "probe_stuck"}))

\* C5: a broker whose rotation failed stays registered, is probed again in
\* the next cycle, and is rotated again when that probe fails again.
C5_FailedRotationRetried ==
    \A t \in BrokerTypes :
        /\ (rotRes[t] # "none" \/ prevRotRes[t] # "none") =>
               t \in broker_instances
        /\ (pc = "sleep" /\ prevRotRes[t] = "failed") =>
               /\ probeRes[t] # "none"
               /\ probeRes[t] = "fail" => rotCalls[t] = 1

\* C5 witness: the rotation of a broker failed in two consecutive cycles
C5_Witness ==
    /\ pc = "sleep"
    /\ prevRotRes["upstox"] = "failed"
    /\ rotRes["upstox"] = "failed"
    /\ rotCalls["upstox"] = 1

\* C6 (as claimed): the access token and the catalog of a registered
\* adapter always come from the same initialize() call.
C6_SnapshotAtomic ==
    \A t \in broker_instances : tokenGen[t] = master_df[t]

\* C8 (as claimed): when the probe of one broker never returns, the
\* registered brokers not yet probed in that cycle are still probed.
C8_StuckProbeIsolated ==
    \A t \in BrokerTypes :
        []((pc = "probe_stuck" /\ t \in broker_instances
                /\ probeRes[t] = "none" /\ t # Cur) =>
             <>(probeRes[t] # "none" \/ pc = "cancelled"))

\* C9 (as claimed): no two rotations of the same broker are in progress
\* at once.
C9_OneRotationAtATime ==
    \A t \in BrokerTypes :
        ~(/\ pc = "reinit_wait" /\ Cur = t
          /\ extPc = "reinit_wait" /\ extCur = t)

\* C31: in every cycle of the loop and for every registered broker,
\* rotate_token is called for the broker if and only if its probe failed in
\* that cycle, and at most once; a probe that succeeds is followed by no
\* rotation and no re-initialization, and outside the service's own
\* initialize() the loop changes a broker's token store entry, access
\* token, catalog or initialize() count only in a cycle where that
\* broker's probe failed.
C31_RotateIffProbeFailed ==
    [][\A t \in BrokerTypes :
          /\ rotCalls'[t] <= 1
          /\ rotCalls'[t] = 1 <=> probeRes'[t] = "fail"
          /\ probeRes'[t] = "ok" => rotRes'[t] = "none"
          /\ probeRes'[t] = "ok" /\ probeRes[t] # "ok" =>
                UNCHANGED <<store, access_token, master_df, initCalls>>
          /\ pc # "svc_init" /\
             <<store[t], access_token[t], master_df[t], initCalls[t]>> #
             <<store'[t], access_token'[t], master_df'[t], initCalls'[t]>>
                => probeRes'[t] = "fail" /\ t \in broker_instances
      ]_vars

\* C31 witness: a cycle has ended in which one broker's probe succeeded and
\* no rotation was called for it, while the other's failed and rotate_token
\* was called for it once.
C31_Witness ==
    /\ pc = "sleep"
    /\ probeRes["upstox"] = "ok"
    /\ rotCalls["upstox"] = 0
    /\ probeRes["zerodha"] = "fail"
    /\ rotCalls["zerodha"] = 1

\* every occurrence of step b in st comes after an occurrence of one of the
\* steps as
ComesAfter(st, as, b) ==
    \A j \in 1..Len(st) :
        st[j] = b => \E i \in 1..(j - 1) : st[i] \in as
StepsOf(st) == {st[i] : i \in 1..Len(st)}

\* C32: in every rotation of the loop, adapter.initialize() is called only
\* after rotate() returned statusCode 200, which comes only after
\* store_token ran (whether or not its write succeeded), which comes only
\* after the authenticator returned a token; when rotate() returned a
\* failure status initialize() is not called at all; and the rotation
\* counts as successful only after initialize() returned.
C32_RotationStepOrder ==
    \A t \in BrokerTypes :
        LET st == rotSteps[t] IN
        /\ ComesAfter(st, {"status_200"}, "initialize")
        /\ ComesAfter(st, {"store_ok", "store_failed"}, "status_200")
        /\ ComesAfter(st, {"fetch_ok"}, "store_ok")
        /\ ComesAfter(st, {"fetch_ok"}, "store_failed")
        /\ "status_500" \in StepsOf(st) => "initialize" \notin StepsOf(st)
        /\ "resolve_error" \in StepsOf(st) => "initialize" \notin StepsOf(st)
        /\ rotRes[t] = "ok" =>
              Len(st) = 5 /\ st[4] = "initialize"
                          /\ st[5] = "initialize_returned"
        /\ rotRes[t] = "pending" => Len(st) = 4 /\ st[4] = "initialize"

\* C32 witness: a rotation of the loop in which the authenticator returned
\* a token, store_token wrote it, rotate() returned 200 and initialize()
\* was then called and returned.
C32_Witness ==
    /\ rotSteps["upstox"] = <<"fetch_ok", "store_ok", "status_200",
                              "initialize", "initialize_returned">>
    /\ rotRes["upstox"] = "ok"

\* C33 (as claimed): whenever rotate() reported statusCode 200 in a
\* rotation, store_token has written the newly fetched token to the token
\* store, so that the initialize() that follows reads it.
C33_SuccessMeansStored ==
    \A t \in BrokerTypes :
        "status_200" \in StepsOf(rotSteps[t])
            => "store_ok" \in StepsOf(rotSteps[t])

\* C34 (as claimed): when the authenticator fails during rotate(),
\* store_token is not invoked and the store's token is what it was before
\* the rotation; and a rotation that failed (rotate_token returned False)
\* has left the adapter's access token and catalog what they were before
\* it.
C34_FailedRotationChangesNothing ==
    \A t \in BrokerTypes :
        rotPre[t] # <<>> =>
            /\ "fetch_raised" \in StepsOf(rotSteps[t]) =>
                  /\ StepsOf(rotSteps[t]) \cap {"store_ok", "store_failed"} = {}
                  /\ store[t] = rotPre[t][1].store
            /\ rotRes[t] = "failed" =>
                  /\ access_token[t] = rotPre[t][1].access_token
                  /\ master_df[t] = rotPre[t][1].master_df

\* C38 (as claimed): for every broker type under which the service
\* registered an adapter, a rotate_token call resolves the broker's rotator
\* class and runs its rotate(): no rotation ends at the resolution of the
\* rotator.
C38_RotatorResolvedForRegistered ==
    \A t \in broker_instances :
        rotCalls[t] = 1 =>
            /\ "resolve_error" \notin StepsOf(rotSteps[t])
            /\ StepsOf(rotSteps[t]) \cap {"fetch_ok", "fetch_raised"} # {}

\* C28: between two consecutive cycles the loop waits exactly once: a cycle
\* begins only out of the interval sleep or the 60 s backoff (the first
\* one out of the service's initialization); the interval sleep follows
\* only a cycle that ran to its end, the backoff only a cycle that raised;
\* and a wait ends only in the next cycle or in the task's cancellation.
C28_OneWaitBetweenCycles ==
    [][ /\ (pc' = "cycle_begin" /\ pc # "cycle_begin") =>
              pc \in {"sleep", "backoff", "svc_init"}
        /\ (pc' = "sleep" /\ pc # "sleep") =>
              \/ pc \in {"probe", "reinit_wait"} /\ idx = Len(RegSeq)
              \/ pc = "cycle_begin" /\ RegSeq = <<>>
        /\ (pc' = "backoff" /\ pc # "backoff") =>
              pc = "cycle_begin" /\ UNCHANGED histVars
        /\ (pc \in {"sleep", "backoff"} /\ pc' # pc) =>
              pc' \in {"cycle_begin", "cancelled"}
      ]_vars

\* C28: the loop is in the 60 s backoff of a cycle that raised, after a
\* cycle that ran to its end with a healthy broker and after the interval
\* sleep that followed it
C28_Witness ==
    pc = "backoff" /\ probeRes["upstox"] = "ok"

Settled(t) ==
    /\ initCalls[t] >= 1
    /\ ~InitRunning(t)
    /\ tokenGen[t] = initCalls[t]
    /\ master_df[t] = initCalls[t]

\* C26: initialize() is idempotent: when a second initialize() of an
\* adapter has returned and the token store and the instrument file are
\* those the first call read, the adapter holds the access token and the
\* catalog the first call left.
C26_InitializeIdempotent ==
    \A t \in BrokerTypes :
        /\ init1[t] # <<>>
        /\ initCalls[t] >= 2
        /\ Settled(t)
        /\ store[t] = init1[t][1].store
        /\ feed = init1[t][1].feed
        => /\ access_token[t] = init1[t][1].access_token
           /\ master_data[t] = init1[t][1].master_data

\* C26: the second initialize() of the Upstox adapter has returned with
\* the store and the file unchanged
C26_Witness ==
    /\ init1["upstox"] # <<>>
    /\ initCalls["upstox"] = 2
    /\ Settled("upstox")
    /\ store["upstox"] = init1["upstox"][1].store
    /\ feed = init1["upstox"][1].feed
    /\ rotRes["upstox"] = "ok"

(***************************************************************************)
(* Claims about quote calls.                                               *)
(***************************************************************************)
\* the refs of the call in flight that its adapter cannot resolve
BadRefs ==
    {i \in 1..Len(reqRefs) :
        ~Resolvable(create_broker(reqBroker), reqRefs[i])}

\* the keys of all batches, in order
RECURSIVE Flatten(_)
Flatten(chunks) ==
    IF chunks = <<>> THEN <<>> ELSE Head(chunks) \o Flatten(Tail(chunks))

\* C7: a multi-batch quote call that began before a rotation /
\* re-initialization of its adapter sends every batch with the access
\* token, and reverse-resolves every response with the catalog, that the
\* adapter held when the call began.
C7_InFlightKeepsSnapshot ==
    reqPc # "idle" /\ Len(reqChunks) >= 2 =>
        /\ \A k \in 1..Len(reqCalls) : reqCalls[k].token = reqTok0
        /\ \A k \in 1..Len(reqCatUsed) : reqCatUsed[k] = reqCat0

\* C10: ltp_quote, ohlc_quote and full_market_quote resolve every ref
\* before any provider call: once a provider call has been issued every ref
\* of the request was resolved, in order; and a request with an
\* unresolvable ref, at whatever position, has failed with ValueError
\* without a single provider call.
C10_ResolveAllBeforeCall ==
    reqPc # "idle" =>
        /\ reqCalls # <<>> =>
              /\ BadRefs = {}
              /\ Flatten(reqChunks) =
                    [i \in 1..Len(reqRefs) |->
                        KeyOf(create_broker(reqBroker), reqRefs[i])]
        /\ BadRefs # {} =>
              /\ reqPc = "failed"
              /\ reqError = "ValueError"
              /\ reqCalls = <<>>

\* C10: a request of three refs whose last ref alone is unresolvable (the
\* first two fill a whole ltp_quote batch) has failed with ValueError and
\* no provider call
C10_Witness ==
    /\ reqPc = "failed"
    /\ reqError = "ValueError"
    /\ reqOp = "ltp_quote"
    /\ Len(reqRefs) = 3
    /\ BadRefs = {3}
    /\ reqCalls = <<>>

\* the call in flight runs on an UpstoxBroker / a ZerodhaBroker
OnUpstox == reqPc # "idle" /\ create_broker(reqBroker) = "UpstoxBroker"
OnZerodha == reqPc # "idle" /\ create_broker(reqBroker) = "ZerodhaBroker"

\* C11: in a multi-batch quote call, a non-success provider response to
\* batch k makes the whole call fail: no provider call follows call k, and
\* the call never returns the results merged before k.
C11_BatchFailureAborts ==
    \A k \in 1..Len(reqOutcomes) :
        reqOutcomes[k] # "ok" =>
            /\ Len(reqCalls) = k
            /\ reqPc \in {"failed", "rate_wait"}
            /\ reqPc = "failed" => reqError # "none"

\* C11: a full_market_quote over three batches whose second batch got an
\* HTTP error after the first was merged: failed, two calls, a merged
\* result that is not returned
C11_Witness ==
    /\ reqPc = "failed"
    /\ reqOp = "full_market_quote"
    /\ Len(reqChunks) = 3
    /\ reqOutcomes = <<"ok", "http_error">>
    /\ Len(reqCalls) = 2
    /\ DOMAIN reqResult # {}

\* C14: for every Upstox quote operation, an HTTP 429 to a batch causes
\* exactly one wait and then the failure of the call, with no provider call
\* after the rate-limited one.
C14_RateLimitOneWait ==
    \A k \in 1..Len(reqOutcomes) :
        OnUpstox /\ reqOutcomes[k] = "rate_limited" /\ reqPc = "failed" =>
            /\ reqRateWaits = 1
            /\ Len(reqCalls) = k

\* C15: a successful Upstox quote call over k batches made k provider
\* calls and exactly k-1 one-second delays, the i-th after the i-th call,
\* none after the last call, also when two batches have equal contents.
C15_DelaysBetweenBatchesOnly ==
    OnUpstox /\ reqPc = "done" /\ reqCalls # <<>> =>
        /\ Len(reqCalls) = Len(reqChunks)
        /\ reqSleeps = [i \in 1..(Len(reqCalls) - 1) |-> i]

\* C16: a Zerodha ltp_quote over k >= 1 batches, each answered with a
\* success response, returns after the last response is merged, having
\* made k calls with delays only between consecutive batches.
C16_ZerodhaLtpReturns ==
    /\ OnZerodha
    /\ reqChunks # <<>>
    /\ Len(reqOutcomes) = Len(reqCalls)
    /\ \A k \in 1..Len(reqOutcomes) : reqOutcomes[k] = "ok"
    => /\ reqPc \in {"sleeping", "done"}
       /\ reqPc = "done" =>
            /\ Len(reqCalls) = Len(reqChunks)
            /\ reqSleeps = [i \in 1..(Len(reqCalls) - 1) |-> i]

\* the call in flight has split its resolved keys into batches
Chunked == reqPc # "idle" /\ ~(reqPc = "failed" /\ reqCalls = <<>>)
CeilDiv(n, b) == (n + b - 1) \div b

\* C17: splitting N resolved keys with batch bound B yields ceil(N/B)
\* batches, each non-empty and of at most B keys, whose concatenation is
\* the resolved list in order; N = 0 yields no batch and no provider call.
C17_ChunkingExact ==
    Chunked =>
        LET B == CHUNK_SIZE(reqOp)
            N == Len(reqRefs)
        IN  /\ Len(reqChunks) = CeilDiv(N, B)
            /\ \A i \in 1..Len(reqChunks) :
                  Len(reqChunks[i]) >= 1 /\ Len(reqChunks[i]) <= B
            /\ Flatten(reqChunks) =
                  [i \in 1..N |-> KeyOf(create_broker(reqBroker), reqRefs[i])]
            /\ N = 0 => reqCalls = <<>> /\ reqPc = "done"

\* C17: an ltp_quote of three keys was split into a full batch and a
\* partial one and both were called
C17_Witness ==
    /\ reqPc = "done"
    /\ reqOp = "ltp_quote"
    /\ Len(reqRefs) = 3
    /\ Len(reqChunks) = 2
    /\ Len(reqChunks[2]) = 1
    /\ Len(reqCalls) = 2

\* the catalog rows of an adapter class, and the exchange and the
\* instrument type a row stands for: the Upstox catalog the quote
\* operations read holds both in its exchange column
Rows(cls) == IF cls = "UpstoxBroker" THEN UpstoxRows ELSE ZerodhaRows
RowExchange(cls, r) ==
    IF cls = "UpstoxBroker" THEN SplitExchange(r.exchange)[1] ELSE r.exchange
RowType(cls, r) ==
    IF cls = "UpstoxBroker" THEN SplitExchange(r.exchange)[2]
    ELSE r.instrument_type

\* row r matches ref on exchange, exchange_token and instrument_type
FullMatch(cls, r, ref) ==
    /\ IsIntStr(ref.exchange_token)
    /\ r.exchange_token = IntOf(ref.exchange_token)
    /\ RowExchange(cls, r) = ref.exchange
    /\ RowType(cls, r) = ref.instrument_type

\* C24 (as claimed): in every adapter, a quote call gets past instrument
\* resolution only if each of its refs matches some catalog row on all
\* three fields exchange, exchange_token and instrument_type.
C24_ResolveNeedsAllThreeFields ==
    Chunked =>
        \A i \in 1..Len(reqRefs) :
            \E j \in 1..Len(Rows(create_broker(reqBroker))) :
                FullMatch(create_broker(reqBroker),
                          Rows(create_broker(reqBroker))[j], reqRefs[i])

\* C23 (as claimed): for a catalog row, resolving its exchange,
\* exchange_token and instrument_type to the instrument key and
\* reverse-resolving the key of the provider's entry (convert_quote) gives
\* the row's exchange_token and trading symbol: every key of a batch
\* answered with success is in the result under its row's exchange_token,
\* with its row's symbol.
C23_RoundTrip ==
    \A k \in 1..Len(reqOutcomes) :
        OnUpstox /\ reqOutcomes[k] = "ok" =>
            \A i \in 1..Len(reqChunks[k]) :
                LET r == RowOfKey(reqChunks[k][i])
                IN  /\ r.exchange_token \in DOMAIN reqResult
                    /\ reqResult[r.exchange_token].trading_symbol
                           = r.trading_symbol

\* C37 (as claimed): a quote call on the Upstox adapter whose refs are
\* pairwise distinct and all resolvable, and whose every batch the provider
\* answered with an entry for each requested key, returns a map with one
\* entry per requested ref, each holding the quote of that ref's own
\* instrument key.
C37_OneEntryPerRef ==
    /\ reqPc = "done"
    /\ OnUpstox
    /\ \A i, j \in 1..Len(reqRefs) : i # j => reqRefs[i] # reqRefs[j]
    /\ Len(reqOutcomes) = Len(reqChunks)
    /\ \A k \in 1..Len(reqOutcomes) : reqOutcomes[k] = "ok"
    => /\ Cardinality(DOMAIN reqResult) = Len(reqRefs)
       /\ \A i \in 1..Len(reqRefs) :
            \E x \in DOMAIN reqResult :
                reqResult[x].instrument_token
                    = KeyOf("UpstoxBroker", reqRefs[i])

\* C25 (as claimed): a quote call for at least one instrument that begins
\* on an adapter whose latest initialize() failed (here: the
\* re-initialization after a rotation) does not return a result.
C25_FailedInitUnusable ==
    reqInitBad /\ reqRefs # <<>> => reqPc # "done"

\* C22 (as claimed): a success response with an entry whose instrument key
\* has no catalog row does not make the Upstox quote call fail: the entry
\* is dropped.
C22_UnknownEntryDropped ==
    \A k \in 1..Len(reqOutcomes) :
        OnUpstox /\ reqOutcomes[k] = "ok_unknown_key" => reqPc # "failed"

(***************************************************************************)
(* Claims about historical_data.                                           *)
(***************************************************************************)
\* the candles of the success responses so far, in the order of arrival
RECURSIVE CandlesOf(_)
CandlesOf(resps) ==
    IF resps = <<>> THEN <<>>
    ELSE (IF Head(resps).outcome = "ok"
          THEN SortedOf(Head(resps).candles) ELSE <<>>)
         \o CandlesOf(Tail(resps))

\* response k was a success without candles
EmptyChunk(k) == hdResp[k].outcome = "ok" /\ hdResp[k].candles = {}

\* C12: a non-200 status on any date chunk of historical_data aborts the
\* call: it fails with an error, requests no later chunk and returns no
\* candle sequence.
C12_HistHttpErrorAborts ==
    \A k \in 1..Len(hdResp) :
        hdResp[k].outcome = "http_error" =>
            hdPc = "failed" /\ Len(hdCalls) = k

\* C13: a date chunk answered successfully but without candles is skipped:
\* the call goes on to the next chunk (or returns, after the last), a call
\* that returns has requested every chunk, and it returns the candles of
\* the other chunks.
C13_EmptyChunkSkipped ==
    /\ \A k \in 1..Len(hdResp) :
          EmptyChunk(k) /\ Len(hdCalls) = k =>
              hdPc = (IF k < Len(hdChunks) THEN "sleeping" ELSE "done")
    /\ hdPc = "done" =>
          /\ Len(hdCalls) = Len(hdChunks)
          /\ hdOut = SortByDatetime(CandlesOf(hdResp))

\* C13: a call over two date chunks returned the candles of the second
\* after the first was answered without candles
C13_Witness ==
    /\ hdPc = "done"
    /\ Len(hdResp) = 2
    /\ EmptyChunk(1)
    /\ hdResp[2].outcome = "ok"
    /\ hdOut # <<>>
    /\ hdOut = SortedOf(hdResp[2].candles)

\* C18: for from <= to the date chunks are contiguous, non-overlapping
\* sub-ranges of [from, to] and every day of the range, `to` and the
\* single day of from = to included, lies in exactly one of them.
C18_DateChunksCover ==
    hdPc # "idle" /\ hdError # "ValueError" /\ hdFrom <= hdTo =>
        /\ \A d \in hdFrom..hdTo :
              Cardinality({i \in 1..Len(hdChunks) :
                  hdChunks[i][1] <= d /\ d <= hdChunks[i][2]}) = 1
        /\ \A i \in 1..Len(hdChunks) :
              /\ hdFrom <= hdChunks[i][1]
              /\ hdChunks[i][1] <= hdChunks[i][2]
              /\ hdChunks[i][2] <= hdTo
              /\ i > 1 => hdChunks[i][1] = hdChunks[i - 1][2] + 1

\* C19: the candle sequence historical_data returns is strictly increasing
\* in datetime, whatever the chunks' responses were.
C19_OutputStrictlyIncreasing ==
    hdPc = "done" =>
        \A i \in 1..(Len(hdOut) - 1) : hdOut[i] < hdOut[i + 1]

\* C20: a call whose last chunk ends today and whose candles lack today's
\* date (the synthetic current-session candle is needed) never fails
\* because of the full-market-quote lookup.
C20_QuoteLookupNeverFailsCall ==
    \A k \in 1..Len(hdResp) :
        /\ hdResp[k].outcome = "ok"
        /\ hdResp[k].candles # {}
        /\ hdCalls[k][2] = hdToday
        /\ hdToday \notin hdResp[k].candles
        => hdPc # "failed"

\* C21 (as claimed): a historical_data call over a non-empty date range
\* that returns has called the full-market-quote lookup exactly once when
\* its end date is today and no returned candle bears today's date (also
\* when the chunk ending today had no candles at all), and not at all
\* otherwise.
C21_LookupExactlyWhenNeeded ==
    hdPc = "done" /\ hdFrom < hdTo =>
        hdLookups =
            (IF /\ hdTo = hdToday
                /\ \A k \in 1..Len(hdResp) : hdToday \notin hdResp[k].candles
             THEN 1 ELSE 0)

\* the number of rows of a candle list that bear datetime d
RECURSIVE CountOf(_, _)
CountOf(sq, d) ==
    IF sq = <<>> THEN 0
    ELSE (IF Head(sq) = d THEN 1 ELSE 0) + CountOf(Tail(sq), d)

\* the number of successful responses that carry a candle with datetime d
RECURSIVE CountIn(_, _)
CountIn(resps, d) ==
    IF resps = <<>> THEN 0
    ELSE (IF Head(resps).outcome = "ok" /\ d \in Head(resps).candles
          THEN 1 ELSE 0) + CountIn(Tail(resps), d)

\* C39: the candles a historical_data call returns are exactly the candles
\* of its successful non-empty chunk responses, each as often as the
\* provider sent it (no candle lost, none invented, no synthetic candle in
\* a call that returns), and the call returns an empty list when every
\* chunk failed or was empty.
C39_CandlesExactlyThoseReceived ==
    hdPc = "done" =>
        /\ \A d \in Days : CountOf(hdOut, d) = CountIn(hdResp, d)
        /\ \A i \in 1..Len(hdOut) : hdOut[i] \in Days
        /\ (\A k \in 1..Len(hdResp) :
               hdResp[k].outcome # "ok" \/ hdResp[k].candles = {})
               => hdOut = <<>>

\* C39 witness: a call over two chunks has returned; the first response
\* carried two candles, the second two more, one of them with a datetime
\* the first had too, and all four rows are in the result.
C39_Witness ==
    /\ hdPc = "done"
    /\ Len(hdResp) = 2
    /\ hdResp[1] = [outcome |-> "ok", candles |-> {0, 1}]
    /\ hdResp[2] = [outcome |-> "ok", candles |-> {1, 2}]
    /\ hdOut = <<0, 1, 1, 2>>

\* C40: the date-chunking loop of historical_data ends for every pair of
\* dates with a finite list of chunks; when from is after to it produces no
\* chunk and no provider call is made; each chunk spans at most
\* ChunkDays + 1 days inclusive (1000 in the source); the chunks are in
\* ascending date order and are requested in that order.
C40_ChunkingTerminatesBoundedAscending ==
    hdPc \notin {"idle"} /\ Resolvable("UpstoxBroker", hdRef) =>
        /\ hdFrom > hdTo => hdChunks = <<>> /\ hdCalls = <<>>
        /\ hdFrom < hdTo =>
              (Len(hdChunks) - 1) * (ChunkDays + 1) < hdTo - hdFrom + 1
        /\ \A k \in 1..Len(hdChunks) :
              /\ hdFrom <= hdChunks[k][1]
              /\ hdChunks[k][1] <= hdChunks[k][2]
              /\ hdChunks[k][2] <= hdTo
              /\ hdChunks[k][2] - hdChunks[k][1] + 1 <= ChunkDays + 1
        /\ \A k \in 1..(Len(hdChunks) - 1) :
              hdChunks[k][2] < hdChunks[k + 1][1]
        /\ Len(hdCalls) <= Len(hdChunks)
        /\ \A k \in 1..Len(hdCalls) : hdCalls[k] = hdChunks[k]
        /\ hdPc = "done" => Len(hdCalls) = Len(hdChunks)

\* C40 witness: a call over a range of four days has returned after
\* requesting its two chunks, the earlier one first.
C40_Witness ==
    /\ hdPc = "done"
    /\ hdFrom = 0
    /\ hdTo = 3
    /\ hdChunks = << <<0, 1>>, <<2, 3>> >>
    /\ hdCalls = << <<0, 1>>, <<2, 3>> >>

(***************************************************************************)
(* Claims about the broker factory.                                        *)
(***************************************************************************)
\* two broker-type strings that differ at most in letter case
CaseClasses == { {"upstox", "Upstox"}, {"zerodha", "Zerodha"}, {"angel"} }
SameModuloCase(a, b) == \E c \in CaseClasses : a \in c /\ b \in c

\* what create_broker(t) has to give after the registrations of log: the
\* class of the latest registration under a type equal to t up to case,
\* ValueError when there is none
LastRegistered(log, t) ==
    LET hits == {i \in 1..Len(log) : SameModuloCase(log[i].broker_type, t)}
    IN  IF hits = {} THEN "ValueError"
        ELSE log[CHOOSE i \in hits : \A j \in hits : j <= i].broker_class

\* C30: after any sequence of register_broker calls, create_broker(t)
\* instantiates the class most recently registered under a type equal to t
\* up to letter case, and raises ValueError exactly when no such
\* registration was made; registrations under other types do not change
\* what t gives.
C30_FactoryCaseInsensitive ==
    /\ \A t \in FactoryTypes :
         (IF Lower(t) \in DOMAIN registry THEN registry[Lower(t)]
          ELSE "ValueError") = LastRegistered(regLog, t)
    /\ created # <<>> =>
         created[1].result =
            LastRegistered(SubSeq(regLog, 1, created[1].at),
                           created[1].broker_type)

\* C30 witness: a class registered as "Upstox", the type re-registered as
\* "upstox" with another class, and create_broker("Upstox") gave the class
\* registered last.
C30_Witness ==
    /\ Len(regLog) = 2
    /\ regLog[1] = [broker_type |-> "Upstox", broker_class |-> "UpstoxBroker"]
    /\ regLog[2] = [broker_type |-> "upstox", broker_class |-> "ZerodhaBroker"]
    /\ created # <<>>
    /\ created[1].broker_type = "Upstox"
    /\ created[1].at = 2
    /\ created[1].result = "ZerodhaBroker"

(***************************************************************************)
(* Claims about the API endpoints.                                         *)
(***************************************************************************)
\* the request names an instrument no row of the adapter's catalog matches
\* on exchange, exchange_token and instrument_type
NamesAbsent ==
    \E i \in 1..Len(apiBody) :
        \A k \in 1..Len(Rows(ApiClass)) :
            ~FullMatch(ApiClass, Rows(ApiClass)[k], apiBody[i])

\* C29 (as claimed): at each data endpoint, a request that reached its
\* handler and names an instrument absent from the catalog is answered
\* with HTTP 400, never with 500 or a success response.
C29_LookupMissIs400 ==
    apiPc = "answered" /\ apiStage = "handler" /\ NamesAbsent
        => apiStatus = 400

\* C35: a request that arrived after a rotation stored a new token is
\* served with that token: the adapter built for the request holds the
\* token the store held when the request arrived, whatever the service's
\* own adapter holds, until the request is answered.
C35_RequestUsesStoredToken ==
    apiStore0 # -1 =>
        /\ apiToken = apiStore0
        /\ apiPc \in {"initializing", "in_broker", "answered"}
        /\ apiStore0 <= StoredToken(ApiClass)

\* C35 witness: a rotation stored a new upstox token, a request for upstox
\* arrived afterwards and was answered with data obtained under the new
\* token.
C35_Witness ==
    /\ "store_ok" \in StepsOf(rotSteps["upstox"])
    /\ apiBrokerType = "upstox"
    /\ apiPc = "answered"
    /\ apiStatus = 200
    /\ apiToken = 1
    /\ apiStore0 = 1

\* C36 (as claimed): when the adapter call of a data endpoint returns an
\* empty result without raising, the endpoint answers with HTTP 404.
C36_EmptyResultIs404 ==
    apiPc = "answered" /\ apiOutcome = "empty" => apiStatus = 404

====
